---- MODULE Spec2Model ----
(***************************************************************************)
(* State-machine model of the DAQmx example repository.                    *)
(*                                                                         *)
(* One program of the repository runs per behaviour (variable app).  The   *)
(* GUI programs are modelled at the granularity of Qt event handlers: one  *)
(* action per slot, translated statement by statement.  A handler is an    *)
(* operator from a "world" record to a "world" record; the field exc of    *)
(* the world is the pending Python exception; Then(w, S) runs statement S  *)
(* unless an exception is pending, which is how try/except/raise is        *)
(* translated.                                                             *)
(* The NI driver is the environment: every driver call may fail; which     *)
(* calls of a handler fail is the set F of call ordinals drawn by the      *)
(* action.                                                                 *)
(*                                                                         *)
(* Environment facts that are not code of this repository:                 *)
(*  - a QTimer is never dispatched re-entrantly while its own timeout      *)
(*    handler is on the stack, a different timer can be;                   *)
(*  - a QTimer that is no longer referenced is destroyed and stops firing; *)
(*  - PySide6 prints an exception that leaves a slot and keeps running,    *)
(*    PyQt5 aborts the process;                                            *)
(*  - a driver call on a cleared task raises (the field late of the task   *)
(*    records that it received one);                                       *)
(*  - finalizers of driver task objects are not modelled;                  *)
(*  - times and voltages are fixed-point numbers counted in                *)
(*    ten-thousandths, so that rounding to three decimals is visible; the  *)
(*    values the clock, the converter and the signal table deliver are     *)
(*    Elapsed, Measured and Generated;                                     *)
(*  - datetime.now() is read once per handler, with a resolution of one    *)
(*    second (variable clock).                                             *)
(*  - the sinks (np.savetxt, sqlite3, the exporter, the Drive API) may     *)
(*    fail; at most MaxSinkFaults such failures occur in a behaviour.      *)
(***************************************************************************)
EXTENDS Integers, Sequences, FiniteSets, TLC

VARIABLES
    app,      \* the program that runs
    self,     \* the fields of the GUI object
    tasks,    \* the driver's tasks: id -> [st, clears, ch, late]
    log,      \* the text box: the entries the last handler appended to it
    qt,       \* the event loop: pending handler frames, quit and abort flags
    store,    \* the sinks: csv files, database rows, png files, Drive uploads
    clock,    \* the wall clock, in seconds
    df,       \* the DataFrame the dashboard has loaded
    drive,    \* the calls a client has made on a gDrive object
    page,     \* what the dashboard shows: the last answer of its callback
    io,       \* history: the reads and writes issued in the current run
    run,      \* history: the current run
    ev,       \* history: the last handler that ran
    faults,   \* history: driver faults injected so far
    starts    \* history: Start clicks so far

vars == <<app, self, tasks, log, qt, store, clock, df, drive, page, io, run, ev,
          faults, starts>>

----------------------------------------------------------------------------
\* Bounds of the model
MaxStarts == 2   \* Start clicks per behaviour
MaxFaults == 1   \* driver faults per behaviour
MaxDepth == 2    \* handler frames that may be suspended in processEvents
MaxLoop == 2     \* largest loop count typed into the loop count field
MaxTicks == 2    \* ticks of one run of a continuous application
MaxRate == 2     \* largest sampling rate typed in, in units of 0.2 Hz
MaxSinkFaults == 1  \* failures of the sinks per behaviour
MaxRows == 2     \* rows of a table handed to the file sink on its own
MaxOps == 2      \* calls a client makes on a gDrive object
MaxFiles == 2    \* files of the testdata folder the dashboard lists

\* Program constants
NPoints == 100   \* len(self.aopoints)
TimeWindow == 5  \* niusb6009aoaib.py: self.time_window
AibTimeWindow == 10  \* niusb6009aib.py: self.time_window
Ai1Reads == 10   \* ai1.py: range(10)
Ao1Points == 11  \* aio.py: ao1 = np.linspace(0.0, 5.0, num=11)
Ao2Points == 10  \* aio.py: ao2 = np.linspace(4.5, 0.0, num=10)

TaskIds == 1..(2 * MaxStarts)

None == 0

----------------------------------------------------------------------------
\* Exceptions and sequencing

Raise(w) == [w EXCEPT !.exc = TRUE]

Caught(w) == [w EXCEPT !.exc = FALSE]

\* Statement S after w, skipped when an exception is pending
Then(w, S(_)) == CHOOSE r \in {IF x.exc THEN x ELSE S(x) : x \in {w}} : TRUE

\* except Exception: H, entered with the exception caught
Except(w, H(_)) == CHOOSE r \in {IF x.exc THEN H(Caught(x)) ELSE x : x \in {w}} : TRUE

\* DAQApp.log_message
log_message(w, m) == [w EXCEPT !.log = Append(@, m)]

----------------------------------------------------------------------------
\* The driver.  A call is the (w.calls + 1)-th of the handler and fails when
\* that ordinal is in w.F.

Faulty(w) == (w.calls + 1) \in w.F

Called(w) == [w EXCEPT !.calls = @ + 1]

\* The call raises DAQError
Failed(w) == [Called(w) EXCEPT !.exc = TRUE, !.kind = "DAQError"]

\* The call on task t raises DAQError; a call that reaches a task after its
\* release is recorded
Rejected(w, t) ==
    [Failed(w) EXCEPT !.tasks[t].late = @ \/ w.tasks[t].st = "cleared"]

\* A KeyboardInterrupt is delivered instead of the (w.calls + 1)-th call
Interrupted(w) == (w.calls + 1) = w.I

KeyboardInterrupt(w) == [Called(w) EXCEPT !.exc = TRUE, !.kind = "KeyboardInterrupt"]

FreeTask(w) == CHOOSE t \in TaskIds :
                  /\ w.tasks[t].st = "absent"
                  /\ \A u \in TaskIds : u < t => w.tasks[u].st # "absent"

\* Task(): DAQmxCreateTask.  The new task is left in w.ret.
CreateTask(w) ==
    IF Interrupted(w) THEN KeyboardInterrupt(w)
    ELSE IF Faulty(w) THEN Failed(w)
    ELSE [Called(w) EXCEPT !.tasks[FreeTask(w)].st = "idle", !.ret = FreeTask(w)]

\* A configuration call on task t: CreateAOVoltageChan, CreateAIVoltageChan,
\* CfgSampClkTiming, add_ao_voltage_chan, ...
Configure(w, t) ==
    IF Interrupted(w) THEN KeyboardInterrupt(w)
    ELSE IF Faulty(w) \/ w.tasks[t].st \in {"absent", "cleared"} THEN Rejected(w, t)
    ELSE Called(w)

\* CreateAOVoltageChan / CreateAIVoltageChan on task t for the channel ch.
\* When it raises, the Start is rejected for its channel.
CreateVoltageChan(w, t, ch) ==
    Except(Then(Configure(w, t), LAMBDA x : [x EXCEPT !.tasks[t].ch = ch]),
           LAMBDA x : [Raise(x) EXCEPT !.rejected = "channel"])

StartTask(w, t) ==
    IF Interrupted(w) THEN KeyboardInterrupt(w)
    ELSE IF Faulty(w) \/ w.tasks[t].st \in {"absent", "cleared"} THEN Rejected(w, t)
    ELSE [Called(w) EXCEPT !.tasks[t].st = "running"]

StopTask(w, t) ==
    IF Interrupted(w) THEN KeyboardInterrupt(w)
    ELSE IF Faulty(w) \/ w.tasks[t].st \in {"absent", "cleared"} THEN Rejected(w, t)
    ELSE [Called(w) EXCEPT !.tasks[t].st = "stopped"]

ClearTask(w, t) ==
    IF Interrupted(w) THEN KeyboardInterrupt(w)
    ELSE IF Faulty(w) \/ w.tasks[t].st \in {"absent", "cleared"} THEN Rejected(w, t)
    ELSE [Called(w) EXCEPT !.tasks[t].st = "cleared",
                           !.tasks[t].clears = @ + 1]

\* History: a read or write issued on task t
Issued(w, k, t, ok) ==
    [w EXCEPT !.io = Append(@, [k |-> k, t |-> t, ok |-> ok, tick |-> w.tick,
                                st |-> IF t = None THEN "none" ELSE w.tasks[t].st]),
              !.run.faulted = @ \/ ~ok]

\* task.WriteAnalogF64(1, autoStart=1, ...): on None the attribute lookup
\* raises before the driver is called.
WriteAnalogF64(w, t) ==
    IF t = None THEN Raise(Issued(w, "write", t, FALSE))
    ELSE IF Interrupted(w) THEN KeyboardInterrupt(w)
    ELSE IF Faulty(w) \/ w.tasks[t].st \in {"absent", "cleared"}
    THEN Rejected(Issued(w, "write", t, FALSE), t)
    ELSE [Called(Issued(w, "write", t, TRUE)) EXCEPT !.tasks[t].st = "running"]

\* time.time() - self.start_time at the k-th tick of a run
Elapsed(k) == 1000 * k + 6

\* The voltage the converter delivers to the k-th read of a run
Measured(k) == 10 * k + 4

\* self.data[i], the i-th point of the generated signal
Generated(i) == 100 * i + 15

\* task.ReadAnalogF64(1, ...): the sample read is left in self.idata
ReadAnalogF64(w, t) ==
    IF t = None THEN Raise(Issued(w, "read", t, FALSE))
    ELSE IF Interrupted(w) THEN KeyboardInterrupt(w)
    ELSE IF Faulty(w) \/ w.tasks[t].st \in {"absent", "cleared"}
    THEN Rejected(Issued(w, "read", t, FALSE), t)
    ELSE [Called(Issued(w, "read", t, TRUE)) EXCEPT !.tasks[t].st = "running",
                                                   !.self.idata = Measured(w.tick)]

\* ao(ao_channel): Task(), CreateAOVoltageChan, StartTask; the task in w.ret
ao(w) ==
    LET w1 == CreateTask(w)
        w2 == Then(w1, LAMBDA x : CreateVoltageChan(x, x.ret, "ao"))
    IN Then(w2, LAMBDA x : StartTask(x, x.ret))

\* ai(ai_channel): Task(), CreateAIVoltageChan, StartTask; the task in w.ret
ai(w) ==
    LET w1 == CreateTask(w)
        w2 == Then(w1, LAMBDA x : CreateVoltageChan(x, x.ret, "ai"))
    IN Then(w2, LAMBDA x : StartTask(x, x.ret))

----------------------------------------------------------------------------
\* The text fields.  A loop count text is <<"int", n>> or <<"bad", 0>>;
\* int() raises ValueError on the second.
ChannelTexts == {"", "Dev2/x"}

LoopTexts == {<<"bad", 0>>} \cup {<<"int", n>> : n \in 0..MaxLoop}

----------------------------------------------------------------------------
\* The number of sinks that fail
FailuresIn(sk) ==
    Cardinality({k \in {"csv", "db", "png"} : ~sk[k]})
        + Cardinality({k \in {"uppng", "upcsv"} : sk[k] # "ok"})

\* The world a handler runs in; the failures of the sinks it will meet are
\* counted in store.failed
World(F, sk) ==
    [self |-> self, tasks |-> tasks, log |-> <<>>,
     store |-> [store EXCEPT !.failed = @ + FailuresIn(sk)], io |-> io,
     run |-> run, exc |-> FALSE, kind |-> "", calls |-> 0, F |-> F, I |-> 0,
     ret |-> None, now |-> clock, rejected |-> "",
     tick |-> run.begun + 1, sk |-> sk, pump |-> FALSE,
     nested |-> qt.stack # <<>>, click |-> TRUE]

\* What the sinks do when called: savetxt, sqlite3 and the exporter succeed or
\* raise; an upload succeeds, fails with an HttpError (which upload_to_folder
\* catches, returning None) or raises another exception.
SinkOutcomes ==
    [csv : BOOLEAN, db : BOOLEAN, png : BOOLEAN,
     uppng : {"ok", "http", "raise"}, upcsv : {"ok", "http", "raise"}]

AllFine == [csv |-> TRUE, db |-> TRUE, png |-> TRUE, uppng |-> "ok", upcsv |-> "ok"]

NoSinkRun == [csv |-> "none", db |-> "none", png |-> "none",
              uppng |-> "none", upcsv |-> "none"]

\* History of a run, started by run_acquisition / start_acquisition
NewRun(w, n, aotask, aitask) ==
    [n |-> n, begun |-> 0, ticks |-> 0, faulted |-> FALSE, completed |-> FALSE,
     stopped |-> FALSE, ao |-> aotask, ai |-> aitask,
     pumped |-> w.nested, sinks |-> NoSinkRun,
     file |-> None, rows |-> <<>>, db0 |-> <<>>, steps |-> <<>>,
     prev |-> IF w.run.stopped
              THEN w.run.prev \cup ({w.run.ao, w.run.ai} \ {None})
              ELSE w.run.prev]

----------------------------------------------------------------------------
\* PyDAQmx2/psydaqgd.py: the finite-iteration application

\* np.column_stack((deltat, aout, ain)): the rows of the table
Rows(s) == [i \in 1..Len(s.deltat) |-> <<s.deltat[i], s.aout[i], s.ain[i]>>]

SameLength(s) == Len(s.deltat) = Len(s.aout) /\ Len(s.aout) = Len(s.ain)

Min(a, b) == IF a <= b THEN a ELSE b

\* zip(deltat, aout, ain): as many rows as the shortest list has
Zipped(s) ==
    [i \in 1..Min(Len(s.deltat), Min(Len(s.aout), Len(s.ain))) |->
        <<s.deltat[i], s.aout[i], s.ain[i]>>]

\* round(v, 3) and the rounding of "%.3f": the nearest thousandth, a tie
\* going to the even one
Round3(v) ==
    LET q == v \div 10
        r == v % 10
    IN IF r < 5 THEN 10 * q
       ELSE IF r > 5 THEN 10 * (q + 1)
       ELSE IF q % 2 = 0 THEN 10 * q ELSE 10 * (q + 1)

Abs(v) == IF v < 0 THEN -v ELSE v

\* "%.3f" without the rounding: the digits after the third are cut off
Fmt3Cut(v) ==
    LET t == Abs(v) \div 10
    IN [neg |-> v < 0, whole |-> t \div 1000,
        d1 |-> (t \div 100) % 10, d2 |-> (t \div 10) % 10, d3 |-> t % 10]

\* "%.3f" % v: the sign, the integer part and three decimals
Fmt3(v) ==
    LET t == Abs(Round3(v)) \div 10
    IN [neg |-> v < 0, whole |-> t \div 1000,
        d1 |-> (t \div 100) % 10, d2 |-> (t \div 10) % 10, d3 |-> t % 10]

\* float(field): the number a field of the file denotes; "-0.000" is zero
Float(f) ==
    (IF f.neg THEN -1 ELSE 1)
        * (10 * (1000 * f.whole + 100 * f.d1 + 10 * f.d2 + f.d3))

\* header="Time (s), AO (V), AI (V)", comments=""
Header == <<"Time (s)", " AO (V)", " AI (V)">>

\* np.savetxt(filename, data, delimiter=",", header=..., fmt="%.3f"): the
\* text of the file, a header line and one line of three fields per row
savetxt(data) ==
    [header |-> Header,
     lines |-> [i \in DOMAIN data |-> [c \in 1..3 |-> Fmt3(data[i][c])]]]

\* pd.read_csv(file_path): the first line names the columns, every other
\* line is a row of numbers
read_csv(text) ==
    [columns |-> text.header,
     rows |-> [i \in DOMAIN text.lines |->
                 [c \in DOMAIN text.lines[i] |-> Float(text.lines[i][c])]]]

\* The file system after open(filename, "w"): a file of that name is replaced
Written(files, filename, text) ==
    [f \in DOMAIN files \cup {filename} |->
        IF f = filename THEN text ELSE files[f]]

\* A table that holds only the rows of the last archive
InsertedAlone(table, timestamp, rows) ==
    [i \in DOMAIN rows |->
        [id |-> i, timestamp |-> timestamp,
         time |-> Round3(rows[i][1]),
         ao_voltage |-> Round3(rows[i][2]),
         ai_voltage |-> Round3(rows[i][3])]]

\* The table after the INSERTs of save_data_to_database are committed: the
\* ids continue after the largest one, all rows carry one timestamp
Inserted(table, timestamp, rows) ==
    table \o [i \in DOMAIN rows |->
                [id |-> Len(table) + i, timestamp |-> timestamp,
                 time |-> Round3(rows[i][1]),
                 ao_voltage |-> Round3(rows[i][2]),
                 ai_voltage |-> Round3(rows[i][3])]]

\* An upload whose failure leaves the local data file truncated
upload_truncating(w, what, outcome) ==
    IF outcome = "raise" THEN Raise([w EXCEPT !.run.sinks[what] = "failed"])
    ELSE IF outcome = "http"
    THEN [w EXCEPT !.run.sinks[what] = "failed",
                   !.store.csv = [f \in DOMAIN @ |-> savetxt(<<>>)]]
    ELSE [w EXCEPT !.store.drive = Append(@, what), !.run.sinks[what] = "ok",
                   !.run.steps = Append(@, what)]

\* gDrive().upload_to_folder(fn, foid) as DAQApp.gd sees it
upload_to_folder(w, what, outcome) ==
    IF outcome = "raise" THEN Raise([w EXCEPT !.run.sinks[what] = "failed"])
    ELSE IF outcome = "http" THEN [w EXCEPT !.run.sinks[what] = "failed"]
    ELSE [w EXCEPT !.store.drive = Append(@, what), !.run.sinks[what] = "ok",
                   !.run.steps = Append(@, what)]

\* f"File uploaded successfully: {fn}"
UploadedMessage(what) ==
    IF what = "uppng" THEN "File uploaded successfully: plot"
    ELSE "File uploaded successfully: data"

\* f"Error uploading to Google Drive: {e}", logged while fn is uploaded
UploadErrorMessage(what) ==
    IF what = "uppng" THEN "Error uploading to Google Drive (plot)"
    ELSE "Error uploading to Google Drive (data)"

\* DAQApp.gd(fn, foid)
gd(w, what, outcome) ==
    LET w1 == upload_to_folder(w, what, outcome)
        w2 == Then(w1, LAMBDA x : log_message(x, UploadedMessage(what)))
    IN Except(w2, LAMBDA x : Raise(log_message(x, UploadErrorMessage(what))))

\* DAQApp.save_plot_as_png
save_plot_as_png(w) ==
    LET w1 == IF w.sk.png
              THEN [w EXCEPT !.store.png = @ + 1, !.run.sinks.png = "ok",
                             !.run.steps = Append(@, "png")]
              ELSE Raise([w EXCEPT !.run.sinks.png = "failed"])
        w2 == Then(w1, LAMBDA x : log_message(x, "Plot saved as"))
    IN Then(w2, LAMBDA x : gd(x, "uppng", x.sk.uppng))

\* DAQApp.save_data_to_database
save_data_to_database(w) ==
    LET w1 == log_message(w, "Archiving data to SQLite3 database...")
        w2 == Then(w1, LAMBDA x :
                 IF x.sk.db
                 THEN [x EXCEPT !.store.table = TRUE,
                                !.store.db = Inserted(@, x.now, Zipped(x.self)),
                                !.run.db0 = x.store.db,
                                !.run.steps = Append(@, "db"),
                                !.run.sinks.db = "ok"]
                 ELSE Raise([x EXCEPT !.run.sinks.db = "failed"]))
        w3 == Then(w2, LAMBDA x : log_message(x, "Data archived to SQLite3 database."))
    IN Except(w3, LAMBDA x : Raise(log_message(x, "Error archiving data to database")))

\* DAQApp.save_data_to_file
psydaqgd_save_data_to_file(w) ==
    LET w1 == log_message(w, "Saving data to CSV file...")
        w2 == Then(w1, LAMBDA x :
                 IF SameLength(x.self) /\ x.sk.csv
                 THEN [x EXCEPT !.store.csv = Written(@, x.now, savetxt(Rows(x.self))),
                                !.store.saved = Append(@, x.now),
                                !.run.file = x.now,
                                !.run.rows = Rows(x.self),
                                !.run.steps = Append(@, "csv"),
                                !.run.sinks.csv = "ok"]
                 ELSE Raise([x EXCEPT !.run.sinks.csv = "failed"]))
        w3 == Then(w2, LAMBDA x : log_message(x, "Data saved to"))
        w4 == Then(w3, save_data_to_database)
    IN Except(w4, LAMBDA x : Raise(log_message(x, "Error saving data to file")))

\* DAQApp.run_acquisition
run_acquisition(w, loop_count) ==
    [log_message(w, "Initializing acquisition loop...")
        EXCEPT !.self.current_index = 0,
               !.self.loop_count = loop_count,
               !.self.iteration = 0,
               !.self.timer = [id |-> @.id + 1, active |-> TRUE],
               !.run = NewRun(w, loop_count, w.self.aotask, w.self.aitask),
               !.io = <<>>]

\* DAQApp.start_acquisition: "if self.aotask: StopTask, ClearTask, = None"
StopAndClear(w, field) ==
    IF w.self[field] = None THEN w
    ELSE LET w1 == StopTask(w, w.self[field])
             w2 == Then(w1, LAMBDA x : ClearTask(x, x.self[field]))
         IN Then(w2, LAMBDA x : [x EXCEPT !.self[field] = None])

\* DAQApp.start_acquisition
psydaqgd_start_acquisition(w0, ao_channel, ai_channel, loop_count_text) ==
    LET w1 == Then(w0, LAMBDA x :
                 log_message(x, "Stopping and clearing any existing tasks..."))
        w2 == Then(w1, LAMBDA x : StopAndClear(x, "aotask"))
        w3 == Then(w2, LAMBDA x : StopAndClear(x, "aitask"))
        w4 == Then(w3, LAMBDA x :
                 log_message(x, "Reading input fields for AO and AI channels..."))
        w5 == Then(w4, LAMBDA x :
                 IF ao_channel = "" \/ ai_channel = ""
                 THEN Raise([x EXCEPT !.rejected = "configuration"]) ELSE x)
        w6 == Then(w5, LAMBDA x :
                 IF loop_count_text[1] = "bad" \/ loop_count_text[2] <= 0
                 THEN Raise([log_message(x, "ValueError")
                               EXCEPT !.rejected = "configuration"])
                 ELSE x)
        w7 == Then(w6, LAMBDA x :
                 log_message(x, "Creating and starting new tasks..."))
        w8 == Then(w7, ao)
        w9 == Then(w8, LAMBDA x : [x EXCEPT !.self.aotask = x.ret])
        w10 == Then(w9, ai)
        w11 == Then(w10, LAMBDA x :
                 [x EXCEPT !.self.aitask = x.ret, !.self.current_index = 0,
                           !.self.deltat = <<>>, !.self.ain = <<>>,
                           !.self.aout = <<>>])
        w12 == Then(w11, LAMBDA x : log_message(x, "Starting acquisition"))
        w13 == Then(w12, LAMBDA x : run_acquisition(x, loop_count_text[2]))
    IN Except(w13, LAMBDA x : Raise(log_message(x, "Error during acquisition")))

\* DAQApp.perform_iteration, the branch taken when iteration >= loop_count
psydaqgd_completion(w0) ==
    LET w1 == log_message([w0 EXCEPT !.self.timer.active = FALSE,
                                     !.run.completed = TRUE,
                                     !.run.steps = Append(@, "timer")],
                          "Acquisition completed.")
        w2 == Then(w1, psydaqgd_save_data_to_file)
        w3 == Then(w2, save_plot_as_png)
    IN Then(w3, LAMBDA x : gd(x, "upcsv", x.sk.upcsv))

\* DAQApp.perform_iteration, the branch that writes and reads one sample, up
\* to QApplication.processEvents()
psydaqgd_sample(w0) ==
    LET w1 == [w0 EXCEPT !.self.current_index = IF @ >= NPoints THEN 0 ELSE @,
                         !.run.begun = @ + 1]
        w2 == Then(w1, LAMBDA x :
                 [x EXCEPT !.self.aout = Append(@, Generated(x.self.current_index))])
        w3 == Then(w2, LAMBDA x : WriteAnalogF64(x, x.self.aotask))
        w4 == Then(w3, LAMBDA x : ReadAnalogF64(x, x.self.aitask))
        w5 == Then(w4, LAMBDA x :
                 [x EXCEPT !.self.deltat = Append(@, Elapsed(x.tick)),
                           !.self.ain = Append(@, x.self.idata),
                           !.run.ticks = @ + 1])
        w6 == Then(w5, LAMBDA x : log_message(x, "Iteration"))
    IN Then(w6, LAMBDA x : [x EXCEPT !.pump = TRUE])

\* DAQApp.perform_iteration up to QApplication.processEvents(); pump tells
\* whether the handler reached it.
perform_iteration(w0) ==
    LET w1 == Then(w0, LAMBDA x :
                 IF x.self.iteration >= x.self.loop_count
                 THEN psydaqgd_completion(x)
                 ELSE psydaqgd_sample(x))
    IN Except(w1, LAMBDA x :
          Raise([log_message(x, "Error during acquisition iteration")
                    EXCEPT !.self.timer.active = FALSE]))

\* DAQApp.perform_iteration after processEvents() has returned
perform_iteration_resume(s) ==
    [s EXCEPT !.current_index = @ + 1, !.iteration = @ + 1]

\* DAQApp.close_application
close_application(w) == log_message(w, "Exiting application...")

----------------------------------------------------------------------------
\* PyDAQmx2/pysideaoai.py: the continuous application

\* DAQApp.save_data_to_file
pysideaoai_save_data_to_file(w) ==
    LET w1 == IF SameLength(w.self) /\ w.sk.csv
              THEN [w EXCEPT !.store.csv = Written(@, w.now, savetxt(Rows(w.self))),
                             !.store.saved = Append(@, w.now),
                             !.run.file = w.now,
                             !.run.rows = Rows(w.self),
                             !.run.steps = Append(@, "csv"),
                             !.run.sinks.csv = "ok"]
              ELSE Raise([w EXCEPT !.run.sinks.csv = "failed"])
    IN Then(w1, LAMBDA x : log_message(x, "Data saved to"))

\* DAQApp.start_acquisition
pysideaoai_start_acquisition(w0, ao_channel, ai_channel) ==
    IF ao_channel = "" \/ ai_channel = ""
    THEN [log_message(w0, "Error: Please specify both AO and AI channels.")
             EXCEPT !.rejected = "configuration"]
    ELSE LET w1 == ao(w0)
             w2 == Then(w1, LAMBDA x : [x EXCEPT !.self.aotask = x.ret])
             w3 == Then(w2, ai)
         IN Then(w3, LAMBDA x :
               [x EXCEPT !.self.aitask = x.ret,
                         !.self.current_index = 0,
                         !.self.deltat = <<>>,
                         !.self.ain = <<>>,
                         !.self.aout = <<>>,
                         !.self.acquiring = TRUE,
                         !.self.start_stop_button = "Stop",
                         !.self.timer.active = TRUE,
                         !.run = NewRun(x, 0, x.self.aotask, x.ret),
                         !.io = <<>>])

\* DAQApp.stop_acquisition: "if self.aotask: StopTask(); ClearTask()"
StopAndClearKept(w, field) ==
    IF w.self[field] = None THEN w
    ELSE Then(StopTask(w, w.self[field]), LAMBDA x : ClearTask(x, x.self[field]))

\* A stop_acquisition that leaves the timer running
stop_acquisition_timer_kept(w0) ==
    LET w1 == [w0 EXCEPT !.run.stopped = TRUE]
        w2 == Then(w1, LAMBDA x : StopAndClearKept(x, "aotask"))
        w3 == Then(w2, LAMBDA x : StopAndClearKept(x, "aitask"))
    IN Then(w3, LAMBDA x :
          [x EXCEPT !.self.acquiring = FALSE, !.self.start_stop_button = "Start"])

\* DAQApp.stop_acquisition
pysideaoai_stop_acquisition(w0) ==
    LET w1 == [w0 EXCEPT !.self.timer.active = FALSE, !.run.stopped = TRUE]
        w2 == Then(w1, LAMBDA x : StopAndClearKept(x, "aotask"))
        w3 == Then(w2, LAMBDA x : StopAndClearKept(x, "aitask"))
        w4 == Then(w3, LAMBDA x :
                 [x EXCEPT !.self.acquiring = FALSE,
                           !.self.start_stop_button = "Start"])
    IN Then(w4, pysideaoai_save_data_to_file)

\* DAQApp.toggle_acquisition
toggle_acquisition(w, ao_channel, ai_channel) ==
    IF w.self.acquiring
    THEN pysideaoai_stop_acquisition(w)
    ELSE pysideaoai_start_acquisition(w, ao_channel, ai_channel)

\* An update_plot that measures before it outputs
update_plot_read_first(w0) ==
    LET w1 == [w0 EXCEPT !.run.begun = @ + 1]
        w2 == Then(w1, LAMBDA x : ReadAnalogF64(x, x.self.aitask))
        w3 == Then(w2, LAMBDA x : WriteAnalogF64(x, x.self.aotask))
    IN Then(w3, LAMBDA x :
          [x EXCEPT !.run.ticks = @ + 1, !.self.current_index = @ + 1])

\* DAQApp.update_plot
pysideaoai_update_plot(w0) ==
    LET w1 == [w0 EXCEPT !.self.current_index = IF @ >= NPoints THEN 0 ELSE @,
                         !.run.begun = @ + 1]
        w2 == Then(w1, LAMBDA x :
                 [x EXCEPT !.self.aout = Append(@, Generated(x.self.current_index))])
        w3 == Then(w2, LAMBDA x : WriteAnalogF64(x, x.self.aotask))
        w4 == Then(w3, LAMBDA x : ReadAnalogF64(x, x.self.aitask))
        w5 == Then(w4, LAMBDA x :
                 [x EXCEPT !.self.deltat = Append(@, Elapsed(x.tick)),
                           !.self.ain = Append(@, x.self.idata),
                           !.run.ticks = @ + 1])
        w6 == Then(w5, LAMBDA x : log_message(x, "sample"))
    IN Then(w6, LAMBDA x : [x EXCEPT !.self.current_index = @ + 1])

----------------------------------------------------------------------------
\* niusb6009aoaib.py: continuous output and input with the nidaqmx binding

\* A sampling rate text is <<"num", r>>, the rate r * 0.2 Hz, or <<"bad", 0>>;
\* float() raises ValueError on the second.
RateTexts == {<<"bad", 0>>} \cup {<<"num", r>> : r \in 0..MaxRate}

\* task.close(); on a task that is closed already it only warns
close(w, t) ==
    IF Faulty(w) THEN Rejected(w, t)
    ELSE IF w.tasks[t].st = "cleared" THEN Called(w)
    ELSE [Called(w) EXCEPT !.tasks[t].st = "cleared", !.tasks[t].clears = @ + 1]

\* NI_USB6009_GUI.stop_acquisition
aoaib_stop_acquisition(w0) ==
    LET w1 == [w0 EXCEPT !.self.timer.active = FALSE,
                         !.run.stopped = @ \/ w0.click]
        w2 == Then(w1, LAMBDA x :
                 IF x.self.input_task = None THEN x
                 ELSE Then(close(x, x.self.input_task),
                           LAMBDA y : [y EXCEPT !.self.input_task = None]))
        w3 == Then(w2, LAMBDA x :
                 IF x.self.output_task = None THEN x
                 ELSE Then(close(x, x.self.output_task),
                           LAMBDA y : [y EXCEPT !.self.output_task = None]))
    IN Then(w3, LAMBDA x :
          [x EXCEPT !.self.start_enabled = TRUE, !.self.stop_enabled = FALSE])

\* NI_USB6009_GUI.start_acquisition
aoaib_start_acquisition(w0, rate_text) ==
    LET w1 == IF w0.self.input_task # None \/ w0.self.output_task # None
              THEN aoaib_stop_acquisition([w0 EXCEPT !.click = FALSE])
              ELSE w0
        w2 == Then(w1, LAMBDA x :
                 IF rate_text[1] = "bad" THEN Raise(x)
                 ELSE [x EXCEPT !.self.sampling_rate = rate_text[2],
                                !.self.max_data_points =
                                    (TimeWindow * rate_text[2]) \div 5])
        w3 == Then(w2, CreateTask)
        w4 == Then(w3, LAMBDA x : [x EXCEPT !.self.output_task = x.ret])
        w5 == Then(w4, LAMBDA x : Configure(x, x.self.output_task))
        w6 == Then(w5, CreateTask)
        w7 == Then(w6, LAMBDA x : [x EXCEPT !.self.input_task = x.ret])
        w8 == Then(w7, LAMBDA x : Configure(x, x.self.input_task))
        \* cfg_samp_clk_timing(rate=...), then int(1000 / self.sampling_rate)
        w9 == Then(w8, LAMBDA x : Configure(x, x.self.input_task))
        w10 == Then(w9, LAMBDA x :
                 IF x.self.sampling_rate = 0 THEN Raise(x) ELSE x)
    IN Then(w10, LAMBDA x :
          [x EXCEPT !.self.timer.active = TRUE,
                    !.self.start_enabled = FALSE,
                    !.self.stop_enabled = TRUE,
                    !.run = NewRun(x, 0, x.self.output_task, x.self.input_task),
                    !.io = <<>>])

\* data.append(new_data[0]); if len(data) > max_data_points: data.pop(0)
Appended(data, v, max_data_points) ==
    IF Len(data) + 1 > max_data_points THEN Tail(Append(data, v))
    ELSE Append(data, v)

\* NI_USB6009_GUI.update_plot
aoaib_update_plot(w0) ==
    IF w0.self.input_task = None \/ w0.self.output_task = None THEN w0
    ELSE LET w1 == WriteAnalogF64([w0 EXCEPT !.run.begun = @ + 1],
                                  w0.self.output_task)
             w2 == Then(w1, LAMBDA x : [x EXCEPT !.self.sine_wave_phase = @ + 1])
             w3 == Then(w2, LAMBDA x : ReadAnalogF64(x, x.self.input_task))
         IN Then(w3, LAMBDA x :
               [x EXCEPT !.self.data = Appended(@, x.self.idata,
                                                x.self.max_data_points),
                         !.run.ticks = @ + 1])

\* NI_USB6009_GUI.clear_graph
clear_graph(w) == [w EXCEPT !.self.data = <<>>]

\* NI_USB6009_GUI.closeEvent
aoaib_closeEvent(w) == aoaib_stop_acquisition(w)

----------------------------------------------------------------------------
\* niusb6009aib.py: continuous input with the nidaqmx binding

\* NI_USB6009_GUI.stop_acquisition
aib_stop_acquisition(w0) ==
    LET w1 == [w0 EXCEPT !.self.timer.active = FALSE,
                         !.run.stopped = @ \/ w0.click]
        w2 == Then(w1, LAMBDA x :
                 IF x.self.task = None THEN x
                 ELSE Then(close(x, x.self.task),
                           LAMBDA y : [y EXCEPT !.self.task = None]))
    IN Then(w2, LAMBDA x :
          [x EXCEPT !.self.start_enabled = TRUE, !.self.stop_enabled = FALSE])

\* NI_USB6009_GUI.start_acquisition
aib_start_acquisition(w0, rate_text) ==
    LET w1 == IF w0.self.task # None THEN close(w0, w0.self.task) ELSE w0
        \* float(self.sampling_rate_input.text())
        w2 == Then(w1, LAMBDA x :
                 IF rate_text[1] = "bad"
                 THEN Raise([x EXCEPT !.rejected = "configuration"])
                 ELSE [x EXCEPT !.self.sampling_rate = rate_text[2],
                                !.self.max_data_points =
                                    (AibTimeWindow * rate_text[2]) \div 5])
        w3 == Then(w2, CreateTask)
        w4 == Then(w3, LAMBDA x : [x EXCEPT !.self.task = x.ret])
        w5 == Then(w4, LAMBDA x : CreateVoltageChan(x, x.self.task, "ai"))
        w6 == Then(w5, LAMBDA x : Configure(x, x.self.task))
        \* int(1000 / sampling_rate)
        w7 == Then(w6, LAMBDA x :
                 IF x.self.sampling_rate = 0 THEN Raise(x) ELSE x)
    IN Then(w7, LAMBDA x :
          [x EXCEPT !.self.timer.active = TRUE,
                    !.self.start_enabled = FALSE,
                    !.self.stop_enabled = TRUE,
                    !.run = NewRun(x, 0, None, x.self.task),
                    !.io = <<>>])

\* NI_USB6009_GUI.update_plot
aib_update_plot(w0) ==
    IF w0.self.task = None THEN w0
    ELSE LET w1 == ReadAnalogF64([w0 EXCEPT !.run.begun = @ + 1], w0.self.task)
         IN Then(w1, LAMBDA x :
               [x EXCEPT !.self.data = Appended(@, x.self.idata,
                                                x.self.max_data_points),
                         !.run.ticks = @ + 1])

\* NI_USB6009_GUI.clear_graph
aib_clear_graph(w) == [w EXCEPT !.self.data = <<>>]

\* NI_USB6009_GUI.closeEvent
aib_closeEvent(w) == aib_stop_acquisition(w)

----------------------------------------------------------------------------
\* PyDAQmex: the scripts.  Each runs from its first statement to its end.

\* try: ... finally: F
Finally(w, F(_)) ==
    CHOOSE r \in {IF x.exc
                  THEN LET y == F(Caught(x))
                       IN IF y.exc THEN y ELSE [y EXCEPT !.exc = TRUE, !.kind = x.kind]
                  ELSE F(x) : x \in {w}} : TRUE

\* except K: H
ExceptKind(w, K, H(_)) ==
    CHOOSE r \in {IF x.exc /\ x.kind = K THEN H(Caught(x)) ELSE x : x \in {w}} : TRUE

\* Acq-IntClk.py
AcqIntClk(w0) ==
    LET w1 == CreateTask(w0)
        w2 == Then(w1, LAMBDA x : [x EXCEPT !.self.taskHandle = x.ret])
        w3 == Then(w2, LAMBDA x : Configure(x, x.self.taskHandle))
        w4 == Then(w3, LAMBDA x : Configure(x, x.self.taskHandle))
        w5 == Then(w4, LAMBDA x : StartTask(x, x.self.taskHandle))
        w6 == Then(w5, LAMBDA x : ReadAnalogF64(x, x.self.taskHandle))
        w7 == ExceptKind(w6, "DAQError", LAMBDA x : x)
    IN Finally(w7, LAMBDA x :
          IF x.self.taskHandle = None THEN x
          ELSE Then(StopTask(x, x.self.taskHandle),
                    LAMBDA y : ClearTask(y, y.self.taskHandle)))

\* ai1.py: "for i in range(10)", i iterations of it
RECURSIVE ai1_loop(_, _)
ai1_loop(w, i) ==
    IF i = 0 THEN w
    ELSE Then(ai1_loop(w, i - 1), LAMBDA y :
            ReadAnalogF64([y EXCEPT !.run.begun = @ + 1, !.tick = @ + 1],
                          y.self.aitask))

\* ai1.py
ai1(w0) ==
    LET w1 == CreateTask(w0)
        w2 == Then(w1, LAMBDA x : [x EXCEPT !.self.aitask = x.ret])
        w3 == Then(w2, LAMBDA x : Configure(x, x.self.aitask))
        w4 == Then(w3, LAMBDA x : StartTask(x, x.self.aitask))
        w5 == Then(w4, LAMBDA x :
                 ExceptKind(ai1_loop(x, Ai1Reads), "KeyboardInterrupt",
                            LAMBDA y : y))
        w6 == Then(w5, LAMBDA x : StopTask(x, x.self.aitask))
    IN Then(w6, LAMBDA x : ClearTask(x, x.self.aitask))

\* aio.py: "for i in aopoints", i iterations of it
RECURSIVE aiao_loop(_, _)
aiao_loop(w, i) ==
    IF i = 0 THEN w
    ELSE LET w1 == Then(aiao_loop(w, i - 1), LAMBDA y :
                      WriteAnalogF64([y EXCEPT !.run.begun = @ + 1, !.tick = @ + 1],
                                     y.self.aotask))
         IN Then(w1, LAMBDA z : ReadAnalogF64(z, z.self.aitask))

\* aio.py: aiao()
aiao(w0) ==
    LET w1 == ao(w0)
        w2 == Then(w1, LAMBDA x : [x EXCEPT !.self.aotask = x.ret])
        w3 == Then(w2, ai)
        w4 == Then(w3, LAMBDA x : [x EXCEPT !.self.aitask = x.ret])
        w5 == Then(w4, LAMBDA x : aiao_loop(x, Ao1Points + Ao2Points))
        w6 == Then(w5, LAMBDA x : StopTask(x, x.self.aotask))
        w7 == Then(w6, LAMBDA x : ClearTask(x, x.self.aotask))
        w8 == Then(w7, LAMBDA x : StopTask(x, x.self.aitask))
    IN Then(w8, LAMBDA x : ClearTask(x, x.self.aitask))

\* contpulsetrain.py: ContinuousPulseTrainGeneration(1.0, 0.5, "dev1/ctr0",
\* reset=True), start(), input(), stop(), clear()
contpulsetrain(w0) ==
    LET w1 == IF Interrupted(w0) THEN KeyboardInterrupt(w0)
              ELSE IF Faulty(w0) THEN Failed(w0) ELSE Called(w0)
        w2 == Then(w1, CreateTask)
        w3 == Then(w2, LAMBDA x : Configure(x, x.ret))
        w4 == Then(w3, LAMBDA x : Configure(x, x.ret))
        w5 == Then(w4, LAMBDA x : [x EXCEPT !.self.taskHandle = x.ret])
        w6 == Then(w5, LAMBDA x : StartTask(x, x.self.taskHandle))
        w7 == Then(w6, LAMBDA x : StopTask(x, x.self.taskHandle))
    IN Then(w7, LAMBDA x : ClearTask(x, x.self.taskHandle))

----------------------------------------------------------------------------
\* The event loop

\* A handler can be dispatched by app.exec() or by a processEvents() of a
\* suspended handler.
Dispatch == ~qt.aborted /\ (qt.stack # <<>> \/ ~qt.quit)

\* The timer is not dispatched while its own handler is on the stack
TimerReady ==
    /\ self.timer.active
    /\ \A i \in DOMAIN qt.stack : qt.stack[i] # self.timer.id

\* The calls of handler H, run from the world w0, that fail: none, one of
\* the calls it makes, or one and a later call it still makes after that
\* one has failed; as many as the fault budget allows.
FaultSets(H(_), w0) ==
    LET budget == MaxFaults - faults
        One == IF budget >= 1 THEN {{j} : j \in 1..H(w0).calls} ELSE {}
        Two == IF budget >= 2
               THEN UNION {{{j, k} : k \in (j + 1)..H([w0 EXCEPT !.F = {j}]).calls} :
                              j \in 1..H(w0).calls}
               ELSE {}
    IN {{}} \cup One \cup Two

\* What datetime.now() may return to a handler that names a file after it:
\* the second of the last reading or a later one.  File names are only
\* compared with each other, so all later seconds are represented by the
\* next one, and a second in which no file was written by the one read.
Seconds ==
    IF \E i \in DOMAIN store.saved : store.saved[i] = clock
    THEN {clock, clock + 1} ELSE {clock}

\* The outcomes of the sinks that the budget of failures still allows
SinkPlans ==
    {sk \in SinkOutcomes : FailuresIn(sk) <= MaxSinkFaults - store.failed}

\* The handler named name has run to the world w with the faults F
Handled(name, w, F) ==
    /\ F \subseteq 1..w.calls
    /\ self' = w.self
    /\ tasks' = w.tasks
    /\ log' = w.log
    /\ store' = w.store
    /\ clock' = w.now
    /\ df' = df
    /\ drive' = drive
    /\ page' = page
    /\ io' = w.io
    /\ run' = w.run
    /\ faults' = faults + Cardinality(F)
    /\ ev' = [name |-> name, raised |-> w.exc, rejected |-> w.rejected]

G_Start ==
    /\ app = "psydaqgd"
    /\ Dispatch
    /\ starts < MaxStarts
    /\ \E a \in ChannelTexts, i \in ChannelTexts, l \in LoopTexts :
         \E F \in FaultSets(LAMBDA x : psydaqgd_start_acquisition(x, a, i, l),
                            World({}, AllFine)) :
            \E w \in {psydaqgd_start_acquisition(World(F, AllFine), a, i, l)} :
               Handled("start_acquisition", w, F)
    /\ starts' = starts + 1
    /\ UNCHANGED <<app, qt>>

G_Tick ==
    /\ app = "psydaqgd"
    /\ Dispatch
    /\ TimerReady
    /\ Len(qt.stack) < MaxDepth
    /\ self.iteration < self.loop_count
    /\ \E F \in FaultSets(perform_iteration, World({}, AllFine)) :
         \E w \in {perform_iteration(World(F, AllFine))} :
            /\ Handled("perform_iteration", w, F)
            /\ qt' = IF w.pump THEN [qt EXCEPT !.stack = Append(@, self.timer.id)]
                     ELSE qt
    /\ UNCHANGED <<app, starts>>

G_Complete ==
    /\ app = "psydaqgd"
    /\ Dispatch
    /\ TimerReady
    /\ self.iteration >= self.loop_count
    /\ \E sk \in SinkPlans, now \in Seconds :
         \E w \in {perform_iteration([World({}, sk) EXCEPT !.now = now])} :
            Handled("perform_iteration", w, {})
    /\ UNCHANGED <<app, qt, starts>>

G_Resume ==
    /\ app = "psydaqgd"
    /\ qt.stack # <<>>
    /\ self' = perform_iteration_resume(self)
    /\ qt' = [qt EXCEPT !.stack = SubSeq(@, 1, Len(@) - 1)]
    /\ ev' = [name |-> "resume", raised |-> FALSE, rejected |-> ""]
    /\ UNCHANGED <<app, tasks, log, store, clock, df, drive, page, io, run, faults, starts>>

G_Exit ==
    /\ app = "psydaqgd"
    /\ Dispatch
    /\ ~qt.quit
    /\ \E w \in {close_application(World({}, AllFine))} :
          Handled("close_application", w, {})
    /\ qt' = [qt EXCEPT !.quit = TRUE]
    /\ UNCHANGED <<app, starts>>

\* pysideaoai: a click on the Start/Stop button
P_Toggle ==
    /\ app = "pysideaoai"
    /\ Dispatch
    /\ self.acquiring \/ starts < MaxStarts
    /\ \E a \in ChannelTexts, i \in ChannelTexts,
          ok \in (IF self.acquiring /\ store.failed < MaxSinkFaults
                 THEN BOOLEAN ELSE {TRUE}),
          now \in (IF self.acquiring THEN Seconds ELSE {clock}) :
         \E w0 \in {[World({}, [AllFine EXCEPT !.csv = ok]) EXCEPT !.now = now]} :
            \E F \in FaultSets(LAMBDA x : toggle_acquisition(x, a, i), w0) :
               \E w \in {toggle_acquisition([w0 EXCEPT !.F = F], a, i)} :
                  Handled("toggle_acquisition", w, F)
    /\ starts' = IF self.acquiring THEN starts ELSE starts + 1
    /\ UNCHANGED <<app, qt>>

P_Tick ==
    /\ app = "pysideaoai"
    /\ Dispatch
    /\ self.timer.active
    /\ run.begun < MaxTicks
    /\ \E F \in FaultSets(pysideaoai_update_plot, World({}, AllFine)) :
         \E w \in {pysideaoai_update_plot(World(F, AllFine))} :
            Handled("update_plot", w, F)
    /\ UNCHANGED <<app, qt, starts>>

\* psydaqgd, pysideaoai: the window is closed; neither class overrides
\* closeEvent, so app.exec() returns.
WindowClose ==
    /\ app \in {"psydaqgd", "pysideaoai"}
    /\ Dispatch
    /\ ~qt.quit
    /\ qt' = [qt EXCEPT !.quit = TRUE]
    /\ ev' = [name |-> "window_close", raised |-> FALSE, rejected |-> ""]
    /\ UNCHANGED <<app, self, tasks, log, store, clock, df, drive, page, io, run, faults, starts>>

\* niusb6009aoaib runs under PyQt5: an exception that leaves a slot aborts
\* the process.
Slot(name, w, F) ==
    /\ Handled(name, w, F)
    /\ qt' = [qt EXCEPT !.aborted = w.exc]

N_Start ==
    /\ app = "niusb6009aoaib"
    /\ Dispatch
    /\ self.start_enabled
    /\ starts < MaxStarts
    /\ \E r \in RateTexts :
         \E F \in FaultSets(LAMBDA x : aoaib_start_acquisition(x, r),
                            World({}, AllFine)) :
            \E w \in {aoaib_start_acquisition(World(F, AllFine), r)} :
               Slot("start_acquisition", w, F)
    /\ starts' = starts + 1
    /\ UNCHANGED app

N_Stop ==
    /\ app = "niusb6009aoaib"
    /\ Dispatch
    /\ self.stop_enabled
    /\ \E F \in FaultSets(aoaib_stop_acquisition, World({}, AllFine)) :
         \E w \in {aoaib_stop_acquisition(World(F, AllFine))} :
            Slot("stop_acquisition", w, F)
    /\ UNCHANGED <<app, starts>>

N_Tick ==
    /\ app = "niusb6009aoaib"
    /\ Dispatch
    /\ self.timer.active
    /\ run.begun < MaxTicks
    /\ \E F \in FaultSets(aoaib_update_plot, World({}, AllFine)) :
         \E w \in {aoaib_update_plot(World(F, AllFine))} :
            Slot("update_plot", w, F)
    /\ UNCHANGED <<app, starts>>

N_Clear ==
    /\ app = "niusb6009aoaib"
    /\ Dispatch
    /\ self.data # <<>>
    /\ \E w \in {clear_graph(World({}, AllFine))} : Slot("clear_graph", w, {})
    /\ UNCHANGED <<app, starts>>

N_Close ==
    /\ app = "niusb6009aoaib"
    /\ Dispatch
    /\ ~qt.quit
    /\ \E F \in FaultSets(aoaib_closeEvent, World({}, AllFine)) :
         \E w \in {aoaib_closeEvent(World(F, AllFine))} :
            /\ Handled("closeEvent", w, F)
            /\ qt' = [qt EXCEPT !.aborted = w.exc, !.quit = TRUE]
    /\ UNCHANGED <<app, starts>>

\* niusb6009aib runs under PyQt5 as well
A_Start ==
    /\ app = "niusb6009aib"
    /\ Dispatch
    /\ self.start_enabled
    /\ starts < MaxStarts
    /\ \E r \in RateTexts :
         \E F \in FaultSets(LAMBDA x : aib_start_acquisition(x, r),
                            World({}, AllFine)) :
            \E w \in {aib_start_acquisition(World(F, AllFine), r)} :
               Slot("start_acquisition", w, F)
    /\ starts' = starts + 1
    /\ UNCHANGED app

A_Stop ==
    /\ app = "niusb6009aib"
    /\ Dispatch
    /\ self.stop_enabled
    /\ \E F \in FaultSets(aib_stop_acquisition, World({}, AllFine)) :
         \E w \in {aib_stop_acquisition(World(F, AllFine))} :
            Slot("stop_acquisition", w, F)
    /\ UNCHANGED <<app, starts>>

A_Tick ==
    /\ app = "niusb6009aib"
    /\ Dispatch
    /\ self.timer.active
    /\ run.begun < MaxTicks
    /\ \E F \in FaultSets(aib_update_plot, World({}, AllFine)) :
         \E w \in {aib_update_plot(World(F, AllFine))} :
            Slot("update_plot", w, F)
    /\ UNCHANGED <<app, starts>>

A_Clear ==
    /\ app = "niusb6009aib"
    /\ Dispatch
    /\ self.data # <<>>
    /\ \E w \in {aib_clear_graph(World({}, AllFine))} : Slot("clear_graph", w, {})
    /\ UNCHANGED <<app, starts>>

A_Close ==
    /\ app = "niusb6009aib"
    /\ Dispatch
    /\ ~qt.quit
    /\ \E F \in FaultSets(aib_closeEvent, World({}, AllFine)) :
         \E w \in {aib_closeEvent(World(F, AllFine))} :
            /\ Handled("closeEvent", w, F)
            /\ qt' = [qt EXCEPT !.aborted = w.exc, !.quit = TRUE]
    /\ UNCHANGED <<app, starts>>

\* A script runs to its end; a KeyboardInterrupt may arrive at any call.
Script(name, w, F) ==
    /\ w.I <= w.calls
    /\ Handled(name, w, F)
    /\ qt' = [qt EXCEPT !.quit = TRUE, !.aborted = w.exc]

\* The worlds script H may start in: no interrupt (I = 0), or an interrupt
\* at one of the calls it makes
Interruptible(H(_)) ==
    {[World({}, AllFine) EXCEPT !.I = k] : k \in 0..H(World({}, AllFine)).calls}

S_AcqIntClk ==
    /\ app = "Acq-IntClk"
    /\ ~qt.quit
    /\ \E w0 \in Interruptible(AcqIntClk) : \E F \in FaultSets(AcqIntClk, w0) :
         \E w \in {AcqIntClk([w0 EXCEPT !.F = F])} : Script("Acq-IntClk", w, F)
    /\ UNCHANGED <<app, starts>>

S_ai1 ==
    /\ app = "ai1"
    /\ ~qt.quit
    /\ \E w0 \in Interruptible(ai1) : \E F \in FaultSets(ai1, w0) :
         \E w \in {ai1([w0 EXCEPT !.F = F])} : Script("ai1", w, F)
    /\ UNCHANGED <<app, starts>>

S_aio ==
    /\ app = "aio"
    /\ ~qt.quit
    /\ \E w0 \in Interruptible(aiao) : \E F \in FaultSets(aiao, w0) :
         \E w \in {aiao([w0 EXCEPT !.F = F])} : Script("aio", w, F)
    /\ UNCHANGED <<app, starts>>

S_contpulsetrain ==
    /\ app = "contpulsetrain"
    /\ ~qt.quit
    /\ \E w0 \in Interruptible(contpulsetrain) : \E F \in FaultSets(contpulsetrain, w0) :
         \E w \in {contpulsetrain([w0 EXCEPT !.F = F])} : Script("contpulsetrain", w, F)
    /\ UNCHANGED <<app, starts>>

----------------------------------------------------------------------------
Scripts == {"Acq-IntClk", "ai1", "aio", "contpulsetrain"}

Apps == {"psydaqgd", "pysideaoai", "niusb6009aoaib", "niusb6009aib"} \cup Scripts

\* After __init__: psydaqgd creates its timer in run_acquisition, the other
\* two applications in __init__.
InitSelf(a) ==
    [aotask |-> None, aitask |-> None, current_index |-> 0,
     deltat |-> <<>>, ain |-> <<>>, aout |-> <<>>, idata |-> 0,
     loop_count |-> 0, iteration |-> 0,
     timer |-> [id |-> IF a = "psydaqgd" THEN 0 ELSE 1, active |-> FALSE],
     acquiring |-> FALSE, start_stop_button |-> "Start",
     input_task |-> None, output_task |-> None, task |-> None, data |-> <<>>,
     max_data_points |-> 0, sampling_rate |-> 5000, sine_wave_phase |-> 0,
     start_enabled |-> TRUE, stop_enabled |-> TRUE,
     taskHandle |-> None]

\* Before the dashboard has loaded a file
NoFrame == [columns |-> <<>>, rows |-> <<>>]

\* The figure {}
EmptyFigure == [data |-> <<>>, title |-> <<>>, xaxis |-> "", yaxis |-> ""]

\* The page before the callback has answered; table is <<>> for None and
\* otherwise holds the one DataTable
NoPage ==
    [selected_file |-> None, toggle_table |-> {}, message |-> "",
     table |-> <<>>, figure |-> EmptyFigure]

\* The state after construction, but for app and self
InitRest ==
    /\ tasks = [t \in TaskIds |->
                  [st |-> "absent", clears |-> 0, ch |-> "none", late |-> FALSE]]
    /\ log = <<>>
    /\ qt = [stack |-> <<>>, quit |-> FALSE, aborted |-> FALSE]
    /\ store = [csv |-> <<>>, db |-> <<>>, png |-> 0, drive |-> <<>>,
                saved |-> <<>>, table |-> FALSE, failed |-> 0]
    /\ clock = 1
    /\ df = NoFrame
    /\ drive = <<>>
    /\ page = NoPage
    /\ io = <<>>
    /\ run = [n |-> 0, begun |-> 0, ticks |-> 0, faulted |-> FALSE,
              completed |-> FALSE, stopped |-> FALSE, ao |-> None, ai |-> None,
              pumped |-> FALSE, sinks |-> NoSinkRun,
              file |-> None, rows |-> <<>>, db0 |-> <<>>, steps |-> <<>>,
              prev |-> {}]
    /\ ev = [name |-> "init", raised |-> FALSE, rejected |-> ""]
    /\ faults = 0
    /\ starts = 0

Init ==
    /\ app \in Apps
    /\ self = InitSelf(app)
    /\ InitRest

Next ==
    \/ G_Start
    \/ G_Tick
    \/ G_Complete
    \/ G_Resume
    \/ G_Exit
    \/ WindowClose
    \/ P_Toggle
    \/ P_Tick
    \/ N_Start
    \/ N_Stop
    \/ N_Tick
    \/ N_Clear
    \/ N_Close
    \/ A_Start
    \/ A_Stop
    \/ A_Tick
    \/ A_Clear
    \/ A_Close
    \/ S_AcqIntClk
    \/ S_ai1
    \/ S_aio
    \/ S_contpulsetrain

Spec == Init /\ [][Next]_vars

----------------------------------------------------------------------------
\* The file sink on its own: save_data_to_file of either application is
\* handed a recorded table and the dashboard reads the file back.

\* Elapsed times, generated and measured voltages, in ten-thousandths
TimeValues == {6, 12345}
OutputValues == {-4, 15}
InputValues == {5, -16}

SampleRows == {<<t, o, i>> : t \in TimeValues, o \in OutputValues, i \in InputValues}

Tables == UNION {[1..n -> SampleRows] : n \in 0..MaxRows}

\* The lists of the GUI object after the samples of table have been recorded
Recorded(a, table) ==
    [InitSelf(a) EXCEPT !.deltat = [k \in DOMAIN table |-> table[k][1]],
                        !.aout = [k \in DOMAIN table |-> table[k][2]],
                        !.ain = [k \in DOMAIN table |-> table[k][3]]]

FileInit ==
    /\ app \in {"psydaqgd", "pysideaoai"}
    /\ \E table \in Tables : self = Recorded(app, table)
    /\ InitRest

\* DAQApp.save_data_to_file of the application
F_Save ==
    /\ store.saved = <<>>
    /\ \E w \in {IF app = "psydaqgd"
                 THEN psydaqgd_save_data_to_file(World({}, AllFine))
                 ELSE pysideaoai_save_data_to_file(World({}, AllFine))} :
          Handled("save_data_to_file", w, {})
    /\ UNCHANGED <<app, qt, starts>>

\* df[df.columns[c]]
Column(frame, c) == [i \in DOMAIN frame.rows |-> frame.rows[i][c]]

\* A figure that plots the first column against the second
FigureSwapped(frame) ==
    IF Len(frame.columns) >= 2
    THEN [data |-> <<[x |-> Column(frame, 2), y |-> Column(frame, 1),
                      name |-> <<frame.columns[1], frame.columns[2]>>]>>,
          title |-> <<"Plot of", frame.columns[1], frame.columns[2]>>,
          xaxis |-> frame.columns[2], yaxis |-> frame.columns[1]]
    ELSE [data |-> <<>>, title |-> <<"Insufficient data for plotting">>,
          xaxis |-> "", yaxis |-> ""]

\* The figure of update_table_and_plot: the second column against the first
Figure(frame) ==
    IF Len(frame.columns) >= 2
    THEN [data |-> <<[x |-> Column(frame, 1), y |-> Column(frame, 2),
                      name |-> <<frame.columns[2], frame.columns[1]>>]>>,
          title |-> <<"Plot of", frame.columns[2], frame.columns[1]>>,
          xaxis |-> frame.columns[1], yaxis |-> frame.columns[2]]
    ELSE [data |-> <<>>, title |-> <<"Insufficient data for plotting">>,
          xaxis |-> "", yaxis |-> ""]

\* dash_table.DataTable(data=df.to_dict("records"), columns=...)
DataTable(frame) == [data |-> frame.rows, columns |-> frame.columns]

\* The exception pd.read_csv(file_path) raises: the file is gone, or it has
\* no line to take the columns from
ReadError(files, selected_file) ==
    IF selected_file \notin DOMAIN files THEN "FileNotFoundError"
    ELSE IF files[selected_file].header = <<>> THEN "EmptyDataError"
    ELSE ""

\* The try block of update_table_and_plot
LoadAndShow(files, selected_file, toggle_table) ==
    IF ReadError(files, selected_file) # ""
    THEN [exc |-> ReadError(files, selected_file), frame |-> NoFrame,
          answer |-> NoPage]
    ELSE LET frame == read_csv(files[selected_file])
         IN [exc |-> "", frame |-> frame,
             answer |-> [selected_file |-> selected_file,
                         toggle_table |-> toggle_table,
                         message |-> "Displaying data from",
                         table |-> IF "show" \in toggle_table
                                   THEN <<DataTable(frame)>> ELSE <<>>,
                         figure |-> Figure(frame)]]

\* Dashboard.update_table_and_plot(selected_file, toggle_table): exc is the
\* exception that leaves the callback, frame the DataFrame it has read
update_table_and_plot(files, selected_file, toggle_table) ==
    IF selected_file = None
    THEN [exc |-> "", frame |-> NoFrame,
          answer |-> [NoPage EXCEPT !.toggle_table = toggle_table,
                                    !.message = "No file selected."]]
    ELSE LET try == LoadAndShow(files, selected_file, toggle_table)
         IN IF try.exc # ""
            THEN [exc |-> "", frame |-> NoFrame,
                  answer |-> [NoPage EXCEPT !.selected_file = selected_file,
                                            !.toggle_table = toggle_table,
                                            !.message = "Failed to load file"]]
            ELSE try

\* The values of the dropdown: no selection, or a file the folder held when
\* the dashboard listed it, which may have been removed since
Selections == {None} \cup (1..MaxFiles) \cup DOMAIN store.csv

\* The values of the checklist
Toggles == {{}, {"show"}}

\* The callback runs with the values of the dropdown and of the checklist
D_Load ==
    /\ \E selected_file \in Selections, toggle_table \in Toggles :
          LET r == update_table_and_plot(store.csv, selected_file, toggle_table)
          IN /\ page' = r.answer
             /\ df' = r.frame
             /\ ev' = [name |-> "update_table_and_plot", raised |-> r.exc # "",
                       rejected |-> ""]
    /\ UNCHANGED <<app, self, tasks, log, qt, store, clock, drive, io, run, faults, starts>>

FileNext ==
    \/ F_Save
    \/ D_Load

FileSpec == FileInit /\ [][FileNext]_vars

\* Files of the testdata folder: an empty one, one with a single column,
\* one with two columns and one that save_data_to_file has written
EmptyFile == [header |-> <<>>, lines |-> <<>>]

OneColumn ==
    [header |-> <<"Time (s)">>, lines |-> <<<<Fmt3(6)>>, <<Fmt3(12345)>>>>]

TwoColumns ==
    [header |-> <<"Time (s)", " AI (V)">>,
     lines |-> <<<<Fmt3(6), Fmt3(-16)>>, <<Fmt3(12345), Fmt3(5)>>>>]

ThreeColumns == savetxt(<<<<6, 15, -16>>, <<12345, -4, 5>>>>)

TestData == {EmptyFile, OneColumn, TwoColumns, ThreeColumns}

\* A file appears in the testdata folder
D_Put ==
    /\ app = "Dashboard"
    /\ \E filename \in 1..MaxFiles, text \in TestData :
          store' = [store EXCEPT !.csv = Written(@, filename, text)]
    /\ ev' = [name |-> "put", raised |-> FALSE, rejected |-> ""]
    /\ UNCHANGED <<app, self, tasks, log, qt, clock, df, drive, page, io, run, faults,
                   starts>>

DashInit ==
    /\ app = "Dashboard"
    /\ self = InitSelf(app)
    /\ InitRest

DashNext ==
    \/ D_Put
    \/ D_Load

DashSpec == DashInit /\ [][DashNext]_vars

----------------------------------------------------------------------------
\* PyDAQmx2/gcpdrive.py: the methods of gDrive, each run against an answer
\* of the Drive API: "ok", "empty" (no files) or "http" (an HttpError raised
\* by execute() or next_chunk()).  A frame holds the local variable file or
\* files of the method ("unbound", "None", or the object bound to it), the
\* pending exception, the value returned and what was printed.

Frame == [file |-> "unbound", exc |-> "", ret |-> "None", printed |-> <<>>]

\* The try block: the API call raises HttpError, or binds local to bound
\* and prints done
Try(api, bound, done) ==
    IF api = "http" THEN [Frame EXCEPT !.exc = "HttpError"]
    ELSE [Frame EXCEPT !.file = bound, !.printed = <<done>>]

\* except HttpError as error: print(f"An error occurred: {error}")
ExceptHttpError(f) ==
    IF f.exc = "HttpError"
    THEN [f EXCEPT !.exc = "", !.printed = Append(@, "An error occurred")]
    ELSE f

\* file = None / files = None in the except clause
AssignNone(f, api) == IF api = "http" THEN [f EXCEPT !.file = "None"] ELSE f

\* return file.getvalue() / return file.get("id") / return files: the
\* attribute lookup raises on None, the name lookup on an unbound local
Return(f, attribute, value) ==
    IF f.exc # "" THEN f
    ELSE IF f.file = "unbound" THEN [f EXCEPT !.exc = "UnboundLocalError"]
    ELSE IF attribute /\ f.file = "None" THEN [f EXCEPT !.exc = "AttributeError"]
    ELSE IF f.file = "None" THEN [f EXCEPT !.ret = "None"]
    ELSE [f EXCEPT !.ret = value]

\* gDrive.listFile
listFile(api) ==
    ExceptHttpError(
        IF api = "empty" THEN [Frame EXCEPT !.printed = <<"No files found.">>]
        ELSE Try(api, "results", "Finished listing files."))

\* gDrive.download_file
download_file(api) ==
    Return(AssignNone(ExceptHttpError(Try(api, "BytesIO", "Finished downloading file")),
                      api),
           TRUE, "bytes")

\* gDrive.upload_basic
upload_basic(api) ==
    Return(AssignNone(ExceptHttpError(Try(api, "file", "Finished uploading file")),
                      api),
           TRUE, "id")

\* gDrive.upload_to_folder; both branches return inside the try statement
gDrive_upload_to_folder(api) ==
    LET f == ExceptHttpError(Try(api, "file", "Finished uploading to folder"))
    IN IF api = "http" THEN [f EXCEPT !.ret = "None"] ELSE [f EXCEPT !.ret = "id"]

\* gDrive.search_file
search_file(api) ==
    Return(AssignNone(ExceptHttpError(
                          Try(IF api = "empty" THEN "ok" ELSE api, "files",
                              "Finished searching files.")),
                      api),
           FALSE, "files")

\* gDrive.export_pdf
export_pdf(api) ==
    Return(AssignNone(ExceptHttpError(Try(api, "BytesIO", "Finished exporting PDF.")),
                      api),
           TRUE, "bytes")

\* gDrive.create_folder; both branches return inside the try statement
create_folder(api) ==
    LET f == ExceptHttpError(Try(api, "file", "Finished creating folder."))
    IN IF api = "http" THEN [f EXCEPT !.ret = "None"] ELSE [f EXCEPT !.ret = "id"]

\* gDrive.create_shortcut: the except clause binds nothing
create_shortcut(api) ==
    Return(ExceptHttpError(Try(api, "file", "Finished creating shortcut.")),
           TRUE, "id")

\* The answers of the Drive API to the request the operation makes
Answers(op) ==
    IF op \in {"listFile", "search_file"} THEN {"ok", "empty", "http"}
    ELSE {"ok", "http"}

\* A client of a gDrive object can call one of its methods; an exception
\* that has left a method has ended the client.
Calling ==
    /\ app = "gcpdrive"
    /\ Len(drive) < MaxOps
    /\ \A i \in DOMAIN drive : drive[i].exc = ""

\* The call itself: what the method returned, raised and printed
Client(op, f, api) ==
    /\ drive' = Append(drive, [op |-> op, api |-> api, ret |-> f.ret,
                               exc |-> f.exc, printed |-> f.printed])
    /\ ev' = [name |-> op, raised |-> f.exc # "", rejected |-> ""]
    /\ UNCHANGED <<app, self, tasks, log, qt, store, clock, df, page, io, run, faults,
                   starts>>

K_listFile ==
    /\ Calling
    /\ \E api \in Answers("listFile") :
          Client("listFile", listFile(api), api)

K_download_file ==
    /\ Calling
    /\ \E api \in Answers("download_file") :
          Client("download_file", download_file(api), api)

K_upload_basic ==
    /\ Calling
    /\ \E api \in Answers("upload_basic") :
          Client("upload_basic", upload_basic(api), api)

K_upload_to_folder ==
    /\ Calling
    /\ \E api \in Answers("upload_to_folder") :
          Client("upload_to_folder", gDrive_upload_to_folder(api), api)

K_search_file ==
    /\ Calling
    /\ \E api \in Answers("search_file") :
          Client("search_file", search_file(api), api)

K_export_pdf ==
    /\ Calling
    /\ \E api \in Answers("export_pdf") :
          Client("export_pdf", export_pdf(api), api)

K_create_folder ==
    /\ Calling
    /\ \E api \in Answers("create_folder") :
          Client("create_folder", create_folder(api), api)

K_create_shortcut ==
    /\ Calling
    /\ \E api \in Answers("create_shortcut") :
          Client("create_shortcut", create_shortcut(api), api)

DriveInit ==
    /\ app = "gcpdrive"
    /\ self = InitSelf(app)
    /\ InitRest

DriveNext ==
    \/ K_listFile
    \/ K_download_file
    \/ K_upload_basic
    \/ K_upload_to_folder
    \/ K_search_file
    \/ K_export_pdf
    \/ K_create_folder
    \/ K_create_shortcut

DriveSpec == DriveInit /\ [][DriveNext]_vars

----------------------------------------------------------------------------
\* Properties

Guis == {"psydaqgd", "pysideaoai", "niusb6009aoaib"}
Continuous == {"pysideaoai", "niusb6009aoaib"}
OutputThenMeasure == Guis \cup {"aio"}
Started == run.ao # None
Reads == {i \in DOMAIN io : io[i].k = "read"}
Writes == {i \in DOMAIN io : io[i].k = "write" /\ io[i].ok}
Released(t) == t # None /\ tasks[t].st = "cleared"

\* C1: in psydaqgd a run with loop count N that has ended by itself has
\* performed exactly N ticks and its timer is stopped.
C1_ExactlyNTicks ==
    app = "psydaqgd" /\ run.completed =>
        /\ run.ticks = run.n
        /\ Len(self.deltat) = run.n
        /\ ~self.timer.active

\* C2: in psydaqgd, when perform_iteration has ended with a driver fault,
\* the timer is stopped, the fault is in the log, and the AO task and the AI
\* task of the run have each been released exactly once.
C2_FaultReleasesOnce ==
    app = "psydaqgd" /\ ev.name = "perform_iteration" /\ ev.raised =>
        /\ ~self.timer.active
        /\ \E i \in DOMAIN log : log[i] = "Error during acquisition iteration"
        /\ tasks[run.ao].clears = 1
        /\ tasks[run.ai].clears = 1

\* C3: in psydaqgd and pysideaoai, after a read or write of a run has
\* raised, no further read or write of that run is issued.
C3_NoRetry ==
    app \in {"psydaqgd", "pysideaoai"} =>
        \A i \in DOMAIN io : ~io[i].ok => i = Len(io)

\* C4: in the GUI applications every read and every write is issued on a
\* task that is started (or is started by the call itself) and is neither
\* stopped nor released nor absent.
C4_OnlyLiveTasks ==
    app \in Guis => \A i \in DOMAIN io : io[i].st \in {"idle", "running"}

\* C5: when a script has ended, on whatever path, every task it created is
\* released.
C5_ScriptsRelease ==
    app \in Scripts /\ qt.quit =>
        \A t \in TaskIds : tasks[t].st \in {"absent", "cleared"}

\* C6: when a run has ended without any driver fault, by Stop or by
\* reaching its loop count, its AO task and its AI task are released.
C6_EndReleases ==
    app \in Guis /\ Started /\ faults = 0 /\ (run.completed \/ run.stopped) =>
        Released(run.ao) /\ Released(run.ai)

\* C7: every read of a run is issued right after the completed write of the
\* same tick, and between two consecutive reads exactly one write completes.
C7_WriteThenRead ==
    app \in OutputThenMeasure =>
        /\ \A i \in Reads :
             /\ i - 1 \in Writes
             /\ io[i - 1].tick = io[i].tick
        /\ \A i, j \in Reads :
             i < j /\ (\A m \in Reads : ~(i < m /\ m < j)) =>
                 Cardinality({m \in Writes : i < m /\ m < j}) = 1

\* C7 witness: a second tick has read, with a tick body suspended in
\* processEvents
C7_Witness ==
    /\ app = "psydaqgd"
    /\ qt.stack # <<>>
    /\ Cardinality(Reads) >= 2
    /\ \A i \in DOMAIN io : io[i].ok

\* C8: no tick begins while the body of another tick is suspended, so at
\* most one tick body is on the stack.
C8_NoOverlap ==
    Len(qt.stack) <= 1

\* C9: in the continuous applications a started run on which no Stop, no
\* close and no fault has happened has its timer running; once Stop has
\* been handled the timer is stopped, a Stop that returns has released both
\* tasks, and no timer runs while a task of a stopped run is unreleased.
C9_ContinuousUntilStop ==
    app \in Continuous /\ Started =>
        /\ ~run.stopped /\ ~run.faulted /\ ~qt.quit /\ ~qt.aborted
              => self.timer.active
        /\ run.stopped => ~self.timer.active
        /\ run.stopped /\ ~ev.raised /\ ev.name \in {"toggle_acquisition",
                                                     "stop_acquisition", "closeEvent"}
              => Released(run.ao) /\ Released(run.ai)
        /\ self.timer.active => \A t \in run.prev : Released(t)

\* C9 witness: a second run ticked after the first one was stopped
C9_Witness ==
    /\ app \in Continuous
    /\ run.prev # {}
    /\ self.timer.active
    /\ run.ticks >= 1
    /\ ~run.faulted

\* C10: when a completed run of psydaqgd has been handled, every sink has
\* been attempted, and the acquired lists are those of the run.
C10_SinksIsolated ==
    app = "psydaqgd" /\ run.completed =>
        /\ \A k \in DOMAIN run.sinks : run.sinks[k] # "none"
        /\ Len(self.deltat) = run.ticks

Logged(m) == \E i \in DOMAIN log : log[i] = m

\* C11: when the completion handler of psydaqgd has run and an upload did
\* not upload its file, an upload error for that file is in the log and
\* 'File uploaded successfully' for that file is not.
C11_UploadFailureReported ==
    app = "psydaqgd" /\ ev.name = "perform_iteration" /\ run.completed =>
        \A what \in {"uppng", "upcsv"} :
            run.sinks[what] = "failed" =>
                /\ Logged(UploadErrorMessage(what))
                /\ ~Logged(UploadedMessage(what))

UploadAttempted == run.sinks.uppng # "none" \/ run.sinks.upcsv # "none"

UploadFailed == run.sinks.uppng = "failed" \/ run.sinks.upcsv = "failed"

\* C12: in psydaqgd, once an upload of a run has been attempted, whether it
\* succeeded or failed, the CSV of the run has been written, it exists, and
\* it holds exactly the rows written, one per tick of the run.
C12_CsvBeforeUpload ==
    app = "psydaqgd" /\ UploadAttempted =>
        /\ run.sinks.csv = "ok"
        /\ run.file \in DOMAIN store.csv
        /\ store.csv[run.file] = savetxt(run.rows)
        /\ Len(run.rows) = run.ticks

C12_Witness ==
    /\ app = "psydaqgd"
    /\ run.sinks.upcsv = "failed"
    /\ run.ticks = 2
    /\ run.file \in DOMAIN store.csv
    /\ Len(store.csv[run.file].lines) = 2

\* C13: no two runs write their data to the same file name: the names passed
\* to np.savetxt during one execution of psydaqgd or pysideaoai are pairwise
\* different, so no file of an earlier run is replaced.
C13_OwnFile ==
    \A i, j \in DOMAIN store.saved : i # j => store.saved[i] # store.saved[j]

Archived == app = "psydaqgd" /\ run.sinks.db = "ok"

\* The rows the archive of the current run has appended
NewRows == SubSeq(store.db, Len(run.db0) + 1, Len(store.db))

\* The archive of the current run has appended one row per tick, in tick
\* order, with one timestamp, after the unchanged rows of earlier runs, and
\* the ids of the table increase strictly.
ArchiveShape ==
    /\ store.table
    /\ Len(store.db) = Len(run.db0) + run.ticks
    /\ SubSeq(store.db, 1, Len(run.db0)) = run.db0
    /\ Len(self.deltat) = run.ticks /\ SameLength(self)
    /\ \A i, j \in DOMAIN NewRows : NewRows[i].timestamp = NewRows[j].timestamp
    /\ \A i, j \in DOMAIN store.db : i < j => store.db[i].id < store.db[j].id

\* C14 as stated: after a successful archive of a run of N ticks the table
\* exists and has N more rows, in tick order, each carrying the (time, AO,
\* AI) triple of its tick and one common timestamp; earlier rows are
\* unchanged and the ids increase strictly.
C14_ArchivedTriples ==
    Archived =>
        /\ ArchiveShape
        /\ \A i \in DOMAIN NewRows :
              /\ NewRows[i].time = self.deltat[i]
              /\ NewRows[i].ao_voltage = self.aout[i]
              /\ NewRows[i].ai_voltage = self.ain[i]

\* C14, amended: as above, but each row carries the triple of its tick
\* rounded to three decimals.
C14_ArchivedRounded ==
    Archived =>
        /\ ArchiveShape
        /\ \A i \in DOMAIN NewRows :
              /\ NewRows[i].time = Round3(self.deltat[i])
              /\ NewRows[i].ao_voltage = Round3(self.aout[i])
              /\ NewRows[i].ai_voltage = Round3(self.ain[i])

C14_Witness ==
    /\ Archived
    /\ run.ticks = 2
    /\ Len(run.db0) >= 1
    /\ Len(store.db) = Len(run.db0) + 2
    /\ store.db[Len(store.db)].ai_voltage # self.ain[2]

Rounded(s) ==
    [i \in 1..Len(s.deltat) |->
        <<Round3(s.deltat[i]), Round3(s.aout[i]), Round3(s.ain[i])>>]

\* C15: a table written with save_data_to_file and read back has as many
\* rows as were recorded, in the same order, and every value read is the
\* recorded value rounded to three decimals.
C15_RoundTrip ==
    ev.name = "update_table_and_plot" /\ page.message = "Displaying data from" =>
        /\ Len(df.rows) = Len(self.deltat)
        /\ \A i \in DOMAIN df.rows : \A c \in 1..3 : df.rows[i][c] = Rounded(self)[i][c]

C15_Witness ==
    /\ ev.name = "update_table_and_plot"
    /\ page.message = "Displaying data from"
    /\ Len(df.rows) = 2
    /\ self.deltat[2] = 12345 /\ df.rows[2][1] = 12340
    /\ self.ain[1] = -16 /\ df.rows[1][3] = -20
    /\ self.aout[1] = -4 /\ df.rows[1][2] = 0

Unreleased(t) == tasks[t].st \in {"idle", "running", "stopped"}

\* Task t is the value of an attribute of the GUI object
Referenced(t) ==
    t \in {self.aotask, self.aitask, self.input_task, self.output_task, self.task}

\* C16: in psydaqgd and pysideaoai every task that has been created and not
\* released is still referenced by the application, and no two unreleased
\* tasks are on the same physical channel.
C16_NoLeak ==
    app \in {"psydaqgd", "pysideaoai"} =>
        \A t \in TaskIds :
            Unreleased(t) =>
                /\ Referenced(t)
                /\ \A u \in TaskIds :
                      Unreleased(u) /\ u # t /\ tasks[t].ch # "none" =>
                          tasks[u].ch # tasks[t].ch

\* C17: a step in which a Start is rejected, for an invalid configuration or
\* for its channel, reports the error and leaves the tasks, the timer and
\* the recorded data as they were before the click.
C17_RejectedStartChangesNothing ==
    [][ev'.name \in {"start_acquisition", "toggle_acquisition"}
         /\ ev'.rejected # "" =>
            /\ log' # <<>>
            /\ tasks' = tasks
            /\ self'.timer = self.timer
            /\ self'.aotask = self.aotask /\ self'.aitask = self.aitask
            /\ self'.deltat = self.deltat
            /\ self'.aout = self.aout
            /\ self'.ain = self.ain]_vars

\* C18: released is terminal: no task has received a driver call, a second
\* close included, after its release.
C18_ReleasedIsTerminal == \A t \in TaskIds : ~tasks[t].late

Windows == Guis \cup {"niusb6009aib"}

\* The application has left its event loop
Exited == app \in Windows /\ qt.quit /\ ~qt.aborted /\ qt.stack = <<>>

\* C19: when a GUI application has exited, its timer is stopped and every
\* task it holds is released.
C19_ExitReleases ==
    Exited =>
        /\ ~self.timer.active
        /\ \A t \in TaskIds : Referenced(t) => ~Unreleased(t)

\* The steps of the current run that are not uploads, in the order performed
Local(steps) == SelectSeq(steps, LAMBDA x : x \in {"timer", "csv", "db", "png"})

Position(steps, x) == CHOOSE i \in DOMAIN steps : steps[i] = x

\* The completion handler of psydaqgd has returned or raised
CompletionHandled ==
    app = "psydaqgd" /\ run.completed /\ ev.name = "perform_iteration"

\* C20: once the completion handler of psydaqgd has run, the timer was
\* stopped, the CSV saved, the database archived and the PNG saved, each
\* once and in this order; the uploads follow the PNG, no file is uploaded
\* twice and the CSV is among the uploaded files; a run that has not
\* completed has performed none of these steps.
C20_CompletionSteps ==
    /\ CompletionHandled =>
          /\ Local(run.steps) = <<"timer", "csv", "db", "png">>
          /\ \E i \in DOMAIN run.steps : run.steps[i] = "upcsv"
          /\ \A i, j \in DOMAIN run.steps :
                /\ run.steps[i] = run.steps[j] => i = j
                /\ run.steps[i] \in {"uppng", "upcsv"} =>
                      Position(run.steps, "png") < i
    /\ app = "psydaqgd" /\ ~run.completed => run.steps = <<>>

\* A Stop click on a running acquisition has been handled and the file
\* system did not fail
StopSaved ==
    /\ app = "pysideaoai"
    /\ ev.name = "toggle_acquisition"
    /\ run.stopped
    /\ run.sinks.csv # "none"
    /\ store.failed = 0

\* C21: in pysideaoai the time, AO and AI lists have the same length at
\* every tick boundary, and a Stop click on a running acquisition saves a
\* CSV with one row per tick of the run.
C21_StopSavesEveryTick ==
    /\ app = "pysideaoai" => SameLength(self)
    /\ StopSaved =>
          /\ run.sinks.csv = "ok"
          /\ run.file \in DOMAIN store.csv
          /\ Len(store.csv[run.file].lines) = run.ticks

\* The log entries that report a failure
ErrorEntries ==
    {"Error during acquisition", "Error during acquisition iteration",
     "Error saving data to file", "Error archiving data to database",
     "Error: Please specify both AO and AI channels.", "ValueError",
     UploadErrorMessage("uppng"), UploadErrorMessage("upcsv")}

\* C22: when a handler of psydaqgd or pysideaoai has met a failure (an
\* exception left the handler or was caught in it, or a sink did not do its
\* work), the entries the handler appended to the log contain one that
\* reports it.
C22_FailuresLogged ==
    app \in {"psydaqgd", "pysideaoai"} /\ ev.name \notin {"init", "resume"} =>
        /\ ev.raised => \E e \in ErrorEntries : Logged(e)
        /\ \A k \in DOMAIN run.sinks :
              run.sinks[k] = "failed"
                  /\ ev.name \in {"perform_iteration", "toggle_acquisition"} =>
                      \E e \in ErrorEntries : Logged(e)

\* C23: every gDrive operation that met an HttpError has printed an error
\* message and has returned None without raising an exception.
C23_HttpErrorHandled ==
    \A i \in DOMAIN drive :
        drive[i].api = "http" =>
            /\ drive[i].exc = ""
            /\ drive[i].ret = "None"
            /\ \E j \in DOMAIN drive[i].printed :
                  drive[i].printed[j] = "An error occurred"

\* The file cannot be loaded: it is not in the folder, or it is empty
Unreadable(f) == f \notin DOMAIN store.csv \/ store.csv[f] = EmptyFile

\* The numbers in column c of file f
Numbers(f, c) ==
    [i \in DOMAIN store.csv[f].lines |-> Float(store.csv[f].lines[i][c])]

\* C24: update_table_and_plot answers ("No file selected.", no table, empty
\* figure) when no file is selected; a "Failed to load file" message with no
\* table and an empty figure when the file cannot be loaded; otherwise the
\* "Displaying data from" message, a table exactly when "show" is in the
\* toggle value, and a plot of the second column against the first when the
\* file has at least two columns, else the "Insufficient data for plotting"
\* figure; it never raises.
C24_CallbackAnswers ==
    ev.name = "update_table_and_plot" =>
        /\ ~ev.raised
        /\ IF page.selected_file = None
           THEN /\ page.message = "No file selected."
                /\ page.table = <<>>
                /\ page.figure = EmptyFigure
           ELSE IF Unreadable(page.selected_file)
           THEN /\ page.message = "Failed to load file"
                /\ page.table = <<>>
                /\ page.figure = EmptyFigure
           ELSE /\ page.message = "Displaying data from"
                /\ page.table # <<>> <=> "show" \in page.toggle_table
                /\ \A i \in DOMAIN page.table :
                      page.table[i].columns = store.csv[page.selected_file].header
                /\ IF Len(store.csv[page.selected_file].header) >= 2
                   THEN /\ Len(page.figure.data) = 1
                        /\ page.figure.data[1].x = Numbers(page.selected_file, 1)
                        /\ page.figure.data[1].y = Numbers(page.selected_file, 2)
                   ELSE /\ page.figure.data = <<>>
                        /\ page.figure.title = <<"Insufficient data for plotting">>

C24_Witness ==
    /\ ev.name = "update_table_and_plot"
    /\ page.message = "Displaying data from"
    /\ page.table # <<>>
    /\ Len(page.figure.data) = 1
    /\ page.figure.data[1].x = <<10, 12340>>
    /\ page.figure.data[1].y = <<20, 0>>

\* No tick body is suspended in processEvents()
TickBoundary == app = "psydaqgd" /\ qt.stack = <<>>

\* C25: in psydaqgd, as long as no driver call has failed, whenever no tick
\* body is suspended, deltat, aout and ain are each as long as iteration
\* counts, and a Start that has returned leaves a run at iteration 0 with
\* empty lists and its timer running.
C25_CountersAgree ==
    /\ TickBoundary /\ faults = 0 =>
          /\ Len(self.deltat) = self.iteration
          /\ Len(self.aout) = self.iteration
          /\ Len(self.ain) = self.iteration
    /\ app = "psydaqgd" /\ ev.name = "start_acquisition" /\ ~ev.raised =>
          /\ self.iteration = 0
          /\ self.deltat = <<>> /\ self.aout = <<>> /\ self.ain = <<>>
          /\ self.timer.active

\* C26: in psydaqgd and pysideaoai, as long as no driver call has failed,
\* the k-th value output in a run (k counted from 0) is point k mod 100 of
\* the sine table, and current_index never exceeds the length of the table.
C26_SineTableCyclic ==
    app \in {"psydaqgd", "pysideaoai"} /\ faults = 0 =>
        /\ self.current_index \in 0..NPoints
        /\ \A i \in DOMAIN self.aout :
              self.aout[i] = Generated((i - 1) % NPoints)

\* The attribute of the GUI object holds a task that is not released
Held(field) == self[field] # None /\ Unreleased(self[field])

\* C27: in pysideaoai the acquiring flag, the activity of the timer, the
\* label "Stop" of the button and the holding of both tasks agree in every
\* state.
C27_ToggleStateAgrees ==
    app = "pysideaoai" =>
        /\ self.acquiring <=> self.timer.active
        /\ self.acquiring <=> self.start_stop_button = "Stop"
        /\ self.acquiring <=> Held("aotask") /\ Held("aitask")
        /\ ~self.acquiring => ~Held("aotask") /\ ~Held("aitask")

\* C28: in the NI-USB-6009 applications the plot buffer holds at most
\* max_data_points samples after every tick that has returned.
C28_BufferBounded ==
    app \in {"niusb6009aoaib", "niusb6009aib"}
        /\ ev.name = "update_plot" /\ ~ev.raised =>
            Len(self.data) <= self.max_data_points

====
